---- MODULE Spec2Model ----
(***************************************************************************)
(* The Game class of the engine (src/unnamed/part_000): the promise chain  *)
(* of the preload / load / update stages, the requestAnimationFrame loop   *)
(* and the pause / resume / end operations.                                *)
(*                                                                         *)
(* The browser is the environment: it runs promise reactions (one action   *)
(* per reaction job), fires each asset's load / error event at most once   *)
(* after the handlers are attached, and fires pending animation frame      *)
(* requests.                                                               *)
(***************************************************************************)
EXTENDS Integers, Sequences, FiniteSets, Bags, TLC

\* ------------------------------------------------------------------ bounds
MaxStages == 3
MaxPending == 2
ScnMaxTime == 12

\* ------------------------------------------------------------- universes
Sprites == {"s1"}
Audios == {"a1"}
Assets == Sprites \cup Audios
Objects == {"hero"}
Maps == {"m1"}
Cameras == {"c1"}
Loadables == Objects \cup Maps \cup Cameras

\* The timestamps the host passes to a frame callback in Spec, in ms
Times == {16}

\* GameState (part_000:9-16)
GameState == {"unset", "preload", "load", "update", "error"}

\* The promise the constructor attaches its catch handler to: the initial
\* Promise.resolve() of #lifecyclePromise, promise 0 of the chain. Stage i
\* of the chain is promise i.
CatchTarget == 0

VARIABLES
    game,     \* the private fields of the Game instance
    frames,   \* the host's pending requestAnimationFrame requests
    stages,   \* the promise chain: one record per registered stage
    deltaTime, \* the elapsed time last passed to the per-frame callback, in
              \* ms (the code passes it in seconds: this value / 1000)
    last,     \* the operation the last step performed
    ended,    \* history: end() has been called and resume() has not been
              \* called since (recorded by the actions of SceneSpec)
    call,     \* the last recorded call: its arguments and the value it
              \* returned
    effects,  \* what the engine did to the outside so far: the runOnce
              \* functions it ran and the lookup misses it printed
    listeners, \* the keyboard instances whose keydown / keyup listeners are
              \* attached to the window
    logger    \* the static fields of GameLogger

vars ==
    << game, frames, stages, deltaTime, last, ended, call, effects, listeners,
       logger >>

\* ------------------------------------------------------------- the state
\* The size the page gives the constructor
SurfaceWidth == 4
SurfaceHeight == 3

\* Field initialisers of the class (part_000:20-70). A registry is a Map from
\* names to objects: the model keeps its key set, and for the entity
\* registry, whose values instantiate() returns, the function from each key to
\* the identity of the object stored under it (0 for an object a load
\* producer returned). #keyboardInstance is the number of the GameKeyboard
\* instance it refers to, instances being numbered from 1 in the order of
\* their construction, and 0 when it is undefined. #keyboardState is the Map
\* from the keys seen to whether they are down.
GameInit ==
    [ currentState |-> "unset",
      updateIsRunning |-> FALSE,
      updateLoopLogic |-> FALSE,
      deltaTimePreviousTime |-> 0,
      loadedSprites |-> {},
      loadedAudios |-> {},
      loadedGameObjects |-> << >>,
      loadedGameMaps |-> {},
      loadedGameCameras |-> {},
      width |-> SurfaceWidth,
      height |-> SurfaceHeight,
      scale |-> 1,
      logsEnabled |-> FALSE,
      loggedErros |-> {},
      updaterRunOnceKeys |-> {},
      keyboardInstance |-> 0,
      keyboardEnabled |-> FALSE,
      keyboardState |-> << >> ]

\* The host's queue of pending animation frame requests, oldest first (the
\* host fires them in the order they were made). Every request is for an
\* #updateLoopLogic closure; the closures of two update stages differ only in
\* the user callback they invoke. An element is TRUE when the request's handle
\* is the value of #updateFrameId, so at most one element is TRUE. The
\* initial #updateFrameId, 0, is the handle of no request.
FramesInit == << >>

\* A stage appended by preload() / load() / update(): the promise returned by
\* then(), not yet settled, its body not yet run.
NewStage(kind) ==
    [ kind |-> kind, st |-> "queued", out |-> "none",
      assets |-> {}, ready |-> {}, failed |-> {} ]

NoCall == [op |-> "none", args |-> << >>, ret |-> << >>]

\* #storedErrors and #storedExceptions of GameLogger (GameLogger.ts:4-5):
\* undefined, or the Set it was given. A Set is held by reference; a field
\* is the one-element sequence of the Set's contents, or the empty sequence
\* when undefined.
NoStore == << >>
Store(set) == <<set>>
LoggerInit == [storedErrors |-> NoStore, storedExceptions |-> NoStore]

\* Nothing done yet. fnRuns counts, per identifier, the runs of a function
\* given to runOnce; missLogs counts, per name, the console.error calls of
\* the updater's lookups, and sessionMissLogs those since the last end().
NoEffects == [fnRuns |-> << >>, missLogs |-> << >>, sessionMissLogs |-> << >>]

\* A counter per key: absent keys count 0
Count(m, k) == IF k \in DOMAIN m THEN m[k] ELSE 0
Bump(m, k) ==
    [x \in DOMAIN m \cup {k} |-> IF x = k THEN Count(m, k) + 1 ELSE m[x]]

Init ==
    /\ game = GameInit
    /\ frames = FramesInit
    /\ stages = << >>
    /\ deltaTime = 0
    /\ last = "init"
    /\ ended = FALSE
    /\ call = NoCall
    /\ effects = NoEffects
    /\ listeners = {}
    /\ logger = LoggerInit

\* ------------------------------------------------------ host primitives
\* Map.set(k, v) for every k of ks, and Map.delete(k)
MapSetAll(m, ks, v) ==
    [x \in DOMAIN m \cup ks |-> IF x \in ks THEN v ELSE m[x]]

MapDelete(m, k) == [x \in DOMAIN m \ {k} |-> m[x]]

\* requestAnimationFrame(cb), the handle dropped
requestUntracked(f) == Append(f, FALSE)

\* this.#updateFrameId = requestAnimationFrame(cb): the handle stored before
\* is overwritten
requestTracked(f) == Append([k \in 1..Len(f) |-> FALSE], TRUE)

\* cancelAnimationFrame(this.#updateFrameId): no effect when that request has
\* fired already or never existed
cancelTracked(f) == SelectSeq(f, LAMBDA x : ~x)

\* ------------------------------------------------------------ keyboard
\* GameKeyboard, the class useKeyboard() instantiates on #keyboardState. Its
\* constructor, #addListener and removeListener are those of GameGamepad
\* (dist/gls/GameGamepad.js:6-35), which is built on the same Map.
Keys == {"a", "b"}

\* The keydown listener of an instance, on the shared Map
keyDownListener(state, key) ==
    LET s1 == IF key \notin DOMAIN state
              THEN [k \in DOMAIN state \cup {key} |->
                        IF k = key THEN TRUE ELSE state[k]]
              ELSE state
    IN  IF s1[key] = FALSE THEN [s1 EXCEPT ![key] = TRUE] ELSE s1

\* The keyup listener of an instance
keyUpListener(state, key) ==
    IF key \in DOMAIN state /\ state[key] = TRUE
    THEN [state EXCEPT ![key] = FALSE]
    ELSE state

\* window.addEventListener for both listeners of instance n
addListener(w, n) == [w EXCEPT !.listeners = @ \cup {n}]

\* removeListener() of instance n: window.removeEventListener for both
removeListener(w, n) == [w EXCEPT !.listeners = @ \ {n}]

\* The window delivers an event to every listener attached for its type
RECURSIVE dispatchEvent(_, _, _, _)
dispatchEvent(state, attached, type, key) ==
    IF attached = {} THEN state
    ELSE LET n == CHOOSE x \in attached : TRUE
             next == IF type = "keydown" THEN keyDownListener(state, key)
                     ELSE keyUpListener(state, key)
         IN  dispatchEvent(next, attached \ {n}, type, key)

\* useKeyboard() that detaches the listeners of the instance it replaces
useKeyboardReplacing(w) ==
    LET n == w.game.keyboardInstance + 1
    IN  [addListener(removeListener(w, w.game.keyboardInstance), n)
            EXCEPT !.game.keyboardInstance = n,
                   !.game.keyboardEnabled = TRUE]

\* useKeyboard(): new GameKeyboard(#keyboardState)
useKeyboard(w) ==
    LET n == w.game.keyboardInstance + 1
    IN  [addListener(w, n) EXCEPT !.game.keyboardInstance = n,
                                  !.game.keyboardEnabled = TRUE]

\* -------------------------------------------------------------- logger
\* GameLogger (src/gls/logging/GameLogger.ts). The tables of coded errors
\* and exceptions are imported from game_logs: the model keeps their ids.
ErrorIds == {1, 2}
ExceptionIds == {1, 2}
LogIds == {1, 2, 3}

\* What a call finds in the stack of the Error it creates: a frame of the
\* caller's file that the pattern matches, no frame the pattern matches (or
\* no stack), or only GameLogger's own frames.
Stacks == {"caller", "none", "loggerOnly"}

\* A console message: the coded one of the table entry, or "id not found"
Coded(level, id) == [level |-> level, kind |-> "coded", id |-> id]
NotFound(level, id) == [level |-> level, kind |-> "notFound", id |-> id]

\* get callerInfo: undefined without a match, the callers' frames
\* otherwise; reduce() of the empty list of frames throws a TypeError.
callerInfo(stack) ==
    CASE stack = "none" -> [threw |-> FALSE, value |-> "undefined"]
      [] stack = "caller" -> [threw |-> FALSE, value |-> "frames"]
      [] stack = "loggerOnly" -> [threw |-> TRUE, value |-> "undefined"]

\* GameLogger.out(type, message): the console call is made unless callerInfo threw
loggerOut(message, stack) ==
    IF callerInfo(stack).threw
    THEN [threw |-> TRUE, emitted |-> << >>]
    ELSE [threw |-> FALSE, emitted |-> <<message>>]

setErrorsStore(w, errorsSet) ==
    IF w.logger.storedErrors # NoStore THEN w
    ELSE [w EXCEPT !.logger.storedErrors = Store(errorsSet)]

setExceptionsStore(w, exceptionsSet) ==
    IF w.logger.storedExceptions # NoStore THEN w
    ELSE [w EXCEPT !.logger.storedExceptions = Store(exceptionsSet)]

\* The record of a logger call: what it printed and whether it threw
LoggerCall(w, op, id, stack, emitted, threw) ==
    [w EXCEPT !.call = [op |-> op, args |-> <<id, stack>>,
                        ret |-> <<emitted, threw>>]]

\* error(errorId)
error(w, errorId, stack) ==
    IF \/ w.logger.storedErrors = NoStore
       \/ errorId \in w.logger.storedErrors[1]
    THEN LoggerCall(w, "error", errorId, stack, << >>, FALSE)
    ELSE IF errorId \in ErrorIds
         THEN LET o == loggerOut(Coded("error", errorId), stack)
              IN  IF o.threw
                  THEN LoggerCall(w, "error", errorId, stack, << >>, TRUE)
                  ELSE [LoggerCall(w, "error", errorId, stack, o.emitted,
                                   FALSE)
                           EXCEPT !.logger.storedErrors[1] = @ \cup {errorId}]
         ELSE LoggerCall(w, "error", errorId, stack,
                         <<NotFound("error", errorId)>>, FALSE)

\* exception(exceptionId): `if (isFound) true;` returns nothing, so the
\* "not found" warning follows in every call that reaches it
exception(w, exceptionId, stack) ==
    IF \/ w.logger.storedExceptions = NoStore
       \/ exceptionId \in w.logger.storedExceptions[1]
    THEN LoggerCall(w, "exception", exceptionId, stack, << >>, FALSE)
    ELSE IF exceptionId \in ExceptionIds
         THEN LET o == loggerOut(Coded("warn", exceptionId), stack)
              IN  IF o.threw
                  THEN LoggerCall(w, "exception", exceptionId, stack, << >>,
                                  TRUE)
                  ELSE [LoggerCall(w, "exception", exceptionId, stack,
                                   o.emitted \o
                                       <<NotFound("warn", exceptionId)>>,
                                   FALSE)
                           EXCEPT !.logger.storedExceptions[1] =
                                      @ \cup {exceptionId}]
         ELSE LoggerCall(w, "exception", exceptionId, stack,
                         <<NotFound("warn", exceptionId)>>, FALSE)

\* ------------------------------------------------- pause / resume / end
\* pause() that forgets to leave the "update" state
pauseKeepsState(w) ==
    IF w.game.updateIsRunning
    THEN [w EXCEPT !.game.updateIsRunning = FALSE,
                   !.frames = cancelTracked(w.frames)]
    ELSE w

\* w is [game, frames, stages, ended, call, effects, listeners, logger]: the state the operations read
\* and write, with the two records of history the actions keep.
pause(w) ==
    IF w.game.updateIsRunning
    THEN [w EXCEPT !.game.currentState = "unset",
                   !.game.updateIsRunning = FALSE,
                   !.frames = cancelTracked(w.frames)]
    ELSE w

\* resume() without its test of isRunning
resumeUnguarded(w) ==
    [w EXCEPT !.game.currentState = "update",
              !.game.updateIsRunning = TRUE,
              !.frames = IF w.game.updateLoopLogic
                         THEN requestUntracked(w.frames)
                         ELSE w.frames]

resume(w) ==
    IF ~w.game.updateIsRunning
    THEN [w EXCEPT !.game.currentState = "update",
                   !.game.updateIsRunning = TRUE,
                   !.frames = IF w.game.updateLoopLogic
                              THEN requestUntracked(w.frames)
                              ELSE w.frames]
    ELSE w

updaterPause(w) ==
    IF w.game.updateIsRunning
    THEN [w EXCEPT !.game.currentState = "unset",
                   !.game.updateIsRunning = FALSE,
                   !.frames = cancelTracked(w.frames)]
    ELSE w

updaterResume(w) ==
    IF ~w.game.updateIsRunning
    THEN [w EXCEPT !.game.currentState = "update",
                   !.game.updateIsRunning = TRUE,
                   !.frames = IF w.game.updateLoopLogic
                              THEN requestUntracked(w.frames)
                              ELSE w.frames]
    ELSE w

end(w) ==
    LET p == pause([w EXCEPT !.game.logsEnabled = FALSE])
        r == IF p.game.keyboardInstance # 0
             THEN removeListener(p, p.game.keyboardInstance)
             ELSE p
    IN  [r EXCEPT !.game.loadedAudios = {},
                  !.game.loadedGameCameras = {},
                  !.game.loadedGameMaps = {},
                  !.game.loadedGameObjects = << >>,
                  !.game.loadedSprites = {},
                  !.game.keyboardState = << >>,
                  !.game.loggedErros = {},
                  !.effects.sessionMissLogs = << >>]

\* useLogs(), called from a file whose frames callerInfo keeps. The Sets it
\* hands to the logger are #loggedErrors and #loggedExceptions, which the
\* Game itself never reads or writes: they are empty unless they are the
\* logger's stores already.
useLogs(w) ==
    IF ~w.game.logsEnabled
    THEN [setExceptionsStore(setErrorsStore(w, {}), {})
             EXCEPT !.game.logsEnabled = TRUE]
    ELSE w

\* --------------------------------------------------- the entity registry
\* An object passed to or created by the engine: its class, its name and a
\* serial number that tells it from the object the registry holds under the
\* same name.
GameObject(name, id) == [class |-> "GameObject", name |-> name, id |-> id]
GameSprite(name) == [class |-> "GameSprite", name |-> name, id |-> 0]

\* new GameObject(name, ...): an object that is none of those in the registry
NewGameObject(reg, name) ==
    GameObject(name, IF name \in DOMAIN reg THEN reg[name] + 1 ELSE 1)

\* removeObject() that handles sprites only
removeObjectSpritesOnly(w, targetObject) ==
    LET c == [w EXCEPT !.call = [op |-> "removeObject",
                                 args |-> <<targetObject>>, ret |-> << >>]]
    IN  IF /\ targetObject.class = "GameSprite"
           /\ targetObject.name \in w.game.loadedSprites
        THEN [c EXCEPT !.game.loadedSprites = @ \ {targetObject.name}]
        ELSE c

removeObject(w, targetObject) ==
    LET c == [w EXCEPT !.call = [op |-> "removeObject",
                                 args |-> <<targetObject>>, ret |-> << >>]]
    IN  IF /\ targetObject.class = "GameSprite"
           /\ targetObject.name \in w.game.loadedSprites
        THEN [c EXCEPT !.game.loadedSprites = @ \ {targetObject.name}]
        ELSE IF /\ targetObject.class = "GameObject"
                /\ targetObject.name \in DOMAIN w.game.loadedGameObjects
        THEN [c EXCEPT !.game.loadedGameObjects =
                           MapDelete(@, targetObject.name)]
        ELSE c

\* The loop of instantiate(): rounds i .. quantity - 1, from the registry reg
\* and the list instances built so far
RECURSIVE instantiateLoop(_, _, _, _, _)
instantiateLoop(reg, instances, targetObject, quantity, i) ==
    IF i >= quantity THEN [reg |-> reg, instances |-> instances]
    ELSE LET newObject ==
                 NewGameObject(reg, targetObject.name \o "-" \o ToString(i + 1))
             set == IF newObject.name \notin DOMAIN reg
                    THEN MapSetAll(reg, {newObject.name}, newObject.id)
                    ELSE reg
             pushed == IF newObject.name \in DOMAIN set
                       THEN Append(instances, newObject)
                       ELSE instances
         IN  instantiateLoop(set, pushed, targetObject, quantity, i + 1)

\* instantiate() whose loop starts at the second round
instantiateFromSecond(w, targetObject, quantity) ==
    LET r == instantiateLoop(w.game.loadedGameObjects, << >>,
                             targetObject, quantity, 1)
    IN  [w EXCEPT !.game.loadedGameObjects = r.reg,
                  !.call = [op |-> "instantiate",
                            args |-> <<targetObject, quantity>>,
                            ret |-> r.instances]]

instantiate(w, targetObject, quantity) ==
    LET r == instantiateLoop(w.game.loadedGameObjects, << >>,
                             targetObject, quantity, 0)
    IN  [w EXCEPT !.game.loadedGameObjects = r.reg,
                  !.call = [op |-> "instantiate",
                            args |-> <<targetObject, quantity>>,
                            ret |-> r.instances]]

\* ---------------------------------------------------------- frame loop
\* What the user's per-frame callback does with the engine during one tick:
\* a sequence of calls, each the operation called and the name or identifier
\* passed to it ("" for an operation that takes none).
CbOps ==
    { "pause", "resume", "end", "runOnce", "getSprite", "getAudio",
      "getObject", "getMap", "animateFromName" }
CbActs ==
    { << >>,
      << [op |-> "pause", name |-> ""] >>,
      << [op |-> "resume", name |-> ""] >>,
      << [op |-> "end", name |-> ""] >>,
      << [op |-> "pause", name |-> ""], [op |-> "resume", name |-> ""] >> }

\* The identifier the callback of SceneSpec passes to runOnce, and a name
\* that is never registered
RunOnceKey == "intro"
MissingName == "ghost"

\* runOnce() that runs the function and does not remember the identifier
updaterRunOnceForgets(w, identifier) ==
    [w EXCEPT !.effects.fnRuns = Bump(@, identifier),
              !.call = [op |-> "runOnce", args |-> <<identifier>>,
                        ret |-> <<TRUE>>]]

\* updater.runOnce(identifier, callbackFn), callbackFn returning normally.
\* The recorded call tells whether callbackFn was run.
updaterRunOnce(w, identifier) ==
    LET run == identifier \notin w.game.updaterRunOnceKeys
        c == [w EXCEPT !.call = [op |-> "runOnce", args |-> <<identifier>>,
                                 ret |-> <<run>>]]
    IN  IF run
        THEN [c EXCEPT !.effects.fnRuns = Bump(@, identifier),
                       !.game.updaterRunOnceKeys = @ \cup {identifier}]
        ELSE c

\* The key of a lookup miss in #loggedErros
LoadError(name) == "loadError: " \o name

\* console.error of a lookup miss for name
logMiss(w, name) ==
    [w EXCEPT !.effects.missLogs = Bump(@, name),
              !.effects.sessionMissLogs = Bump(@, name)]

\* getObject() that logs a miss without remembering the name
updaterGetObjectForgets(w, gameObjectName) ==
    IF /\ w.game.logsEnabled
       /\ gameObjectName \notin DOMAIN w.game.loadedGameObjects
    THEN logMiss(w, gameObjectName)
    ELSE w

\* updater.getObject(gameObjectName): a miss is logged, and its key added
\* to #loggedErros, when logs are enabled and the key is not in the set
updaterGetObject(w, gameObjectName) ==
    IF /\ w.game.logsEnabled
       /\ gameObjectName \notin DOMAIN w.game.loadedGameObjects
       /\ LoadError(gameObjectName) \notin w.game.loggedErros
    THEN [logMiss(w, gameObjectName)
              EXCEPT !.game.loggedErros = @ \cup {LoadError(gameObjectName)}]
    ELSE w

\* updater.getSprite(spriteName): the same key set as getObject
updaterGetSprite(w, spriteName) ==
    IF /\ w.game.logsEnabled
       /\ spriteName \notin w.game.loadedSprites
       /\ LoadError(spriteName) \notin w.game.loggedErros
    THEN [logMiss(w, spriteName)
              EXCEPT !.game.loggedErros = @ \cup {LoadError(spriteName)}]
    ELSE w

\* updater.getAudio(audioName)
updaterGetAudio(w, audioName) ==
    IF /\ w.game.logsEnabled
       /\ audioName \notin w.game.loadedAudios
       /\ LoadError(audioName) \notin w.game.loggedErros
    THEN [logMiss(w, audioName)
              EXCEPT !.game.loggedErros = @ \cup {LoadError(audioName)}]
    ELSE w

\* updater.getMap(gameMapName)
updaterGetMap(w, gameMapName) ==
    IF /\ w.game.logsEnabled
       /\ gameMapName \notin w.game.loadedGameMaps
       /\ LoadError(gameMapName) \notin w.game.loggedErros
    THEN [logMiss(w, gameMapName)
              EXCEPT !.game.loggedErros = @ \cup {LoadError(gameMapName)}]
    ELSE w

\* updater.animateFromName(gameObjectName): a registered object is drawn,
\* a miss is logged like getObject's
updaterAnimateFromName(w, gameObjectName) ==
    IF /\ gameObjectName \notin DOMAIN w.game.loadedGameObjects
       /\ w.game.logsEnabled
       /\ LoadError(gameObjectName) \notin w.game.loggedErros
    THEN [logMiss(w, gameObjectName)
              EXCEPT !.game.loggedErros = @ \cup {LoadError(gameObjectName)}]
    ELSE w

CbStep(w, c) ==
    CASE c.op = "pause" -> updaterPause(w)
      [] c.op = "resume" -> updaterResume(w)
      [] c.op = "end" -> end(w)
      [] c.op = "runOnce" -> updaterRunOnce(w, c.name)
      [] c.op = "getSprite" -> updaterGetSprite(w, c.name)
      [] c.op = "getAudio" -> updaterGetAudio(w, c.name)
      [] c.op = "getObject" -> updaterGetObject(w, c.name)
      [] c.op = "getMap" -> updaterGetMap(w, c.name)
      [] c.op = "animateFromName" -> updaterAnimateFromName(w, c.name)

RECURSIVE callbackFn(_, _)
callbackFn(w, acts) ==
    IF acts = << >> THEN w
    ELSE callbackFn(CbStep(w, Head(acts)), Tail(acts))

\* #updateLoopLogic(currentTime), entered with the fired request already
\* removed from the host's queue
updateLoopLogic(w, currentTime, acts) ==
    IF w.game.currentState # "update"
    THEN w
    ELSE LET c == callbackFn(w, acts)
         IN  [c EXCEPT !.game.deltaTimePreviousTime = currentTime,
                       !.frames = IF c.game.updateLoopLogic
                                  THEN requestTracked(c.frames)
                                  ELSE c.frames]

\* ------------------------------------------------------- promise chain
\* The state of promise i of the chain; promise 0 is Promise.resolve().
PromiseState(s, i) == IF i = 0 THEN "fulfilled" ELSE s[i].st

\* The reaction of the constructor's catch handler to the rejection of
\* promise i: it is attached to promise CatchTarget only.
onRejected(g, i) ==
    IF i = CatchTarget THEN [g EXCEPT !.currentState = "error"] ELSE g

\* Promise i rejects.
reject(w, i) ==
    [w EXCEPT !.stages[i].st = "rejected",
              !.game = onRejected(w.game, i)]

\* preload() that begins its body in the call
preloadSync(w) ==
    [w EXCEPT !.stages = Append(@, NewStage("preload")),
              !.game.currentState = "preload"]

\* preload(callbackFn), load(callbackFn), update(callbackFn): the chain grows
\* by then(body); nothing of the body runs in the call.
preload(w) == [w EXCEPT !.stages = Append(@, NewStage("preload"))]
load(w) == [w EXCEPT !.stages = Append(@, NewStage("load"))]
update(w) == [w EXCEPT !.stages = Append(@, NewStage("update"))]

\* What a producer does when the body calls it: it throws or returns a list.
Threw == [threw |-> TRUE, list |-> {}]
Returned(l) == [threw |-> FALSE, list |-> l]
PreloadOutputs == {Threw, Returned({}), Returned(Sprites), Returned(Assets)}
LoadOutputs == {Threw, Returned({}), Returned(Objects), Returned(Loadables)}

\* A preload body without the throw on an empty list
preloadBodyNoThrow(w, i, out) ==
    LET s == [w EXCEPT !.game.currentState = "preload"]
    IN  IF out.threw
        THEN reject([s EXCEPT !.stages[i].out = "threw"], i)
        ELSE [s EXCEPT !.stages[i].out = IF out.list = {} THEN "empty" ELSE "ok",
                       !.stages[i].assets = out.list,
                       !.stages[i].st = "awaitSprites"]

\* The body of the preload stage up to its first await (part_000:180-220)
preloadBody(w, i, out) ==
    LET s == [w EXCEPT !.game.currentState = "preload"]
    IN  IF out.threw
        THEN reject([s EXCEPT !.stages[i].out = "threw"], i)
        ELSE IF out.list = {}
        THEN reject([s EXCEPT !.stages[i].out = "empty"], i)
        ELSE [s EXCEPT !.stages[i].out = "ok",
                       !.stages[i].assets = out.list,
                       !.stages[i].st = "awaitSprites"]

\* An onload handler that resolves without registering the sprite
spriteOnloadNoSet(w, i, a) == [w EXCEPT !.stages[i].ready = @ \cup {a}]

\* sprite.element.onload
spriteOnload(w, i, a) ==
    [w EXCEPT !.game.loadedSprites = @ \cup {a},
              !.stages[i].ready = @ \cup {a}]

\* An onerror handler that registers the sprite all the same
spriteOnerrorSets(w, i, a) ==
    [w EXCEPT !.game.loadedSprites = @ \cup {a},
              !.stages[i].failed = @ \cup {a}]

\* sprite.element.onerror
spriteOnerror(w, i, a) == [w EXCEPT !.stages[i].failed = @ \cup {a}]

\* onCanPlayThrough
onCanPlayThrough(w, i, a) ==
    [w EXCEPT !.game.loadedAudios = @ \cup {a},
              !.stages[i].ready = @ \cup {a}]

\* onErrorPlay
onErrorPlay(w, i, a) == [w EXCEPT !.stages[i].failed = @ \cup {a}]

\* The promise the body is awaiting has settled: the assets it waits for, and
\* whether it is fulfilled or rejected.
Awaited(st) == IF st.st = "awaitSprites" THEN st.assets \cap Sprites
               ELSE st.assets \cap Audios
AwaitFulfilled(st) ==
    /\ st.st \in {"awaitSprites", "awaitAudios"}
    /\ Awaited(st) \subseteq st.ready
AwaitRejected(st) ==
    /\ st.st \in {"awaitSprites", "awaitAudios"}
    /\ Awaited(st) \cap st.failed # {}

\* A preload body that awaits the sprites only
preloadResumeSpritesOnly(w, i) ==
    IF AwaitRejected(w.stages[i]) THEN reject(w, i)
    ELSE [w EXCEPT !.stages[i].st = "fulfilled"]

\* The body of the preload stage resumes after an await.
preloadResume(w, i) ==
    IF AwaitRejected(w.stages[i]) THEN reject(w, i)
    ELSE IF w.stages[i].st = "awaitSprites"
    THEN [w EXCEPT !.stages[i].st = "awaitAudios"]
    ELSE [w EXCEPT !.stages[i].st = "fulfilled"]

\* The body of the load stage
loadBody(w, i, out) ==
    LET s == [w EXCEPT !.game.currentState = "load"]
    IN  IF out.threw
        THEN reject([s EXCEPT !.stages[i].out = "threw"], i)
        ELSE [s EXCEPT !.stages[i].out = "ok",
                       !.stages[i].st = "fulfilled",
                       !.game.loadedGameObjects =
                           MapSetAll(@, out.list \cap Objects, 0),
                       !.game.loadedGameMaps = @ \cup (out.list \cap Maps),
                       !.game.loadedGameCameras = @ \cup (out.list \cap Cameras)]

\* An update body that does not request the first frame
updateBodyNoFrame(w, i) ==
    [w EXCEPT !.game.currentState = "update",
              !.game.updateIsRunning = TRUE,
              !.game.updateLoopLogic = TRUE,
              !.stages[i].out = "ok",
              !.stages[i].st = "fulfilled"]

\* The body of the update stage
updateBody(w, i) ==
    [w EXCEPT !.game.currentState = "update",
              !.game.updateIsRunning = TRUE,
              !.game.updateLoopLogic = TRUE,
              !.frames = requestUntracked(@),
              !.stages[i].out = "ok",
              !.stages[i].st = "fulfilled"]

\* ------------------------------------------------------------- actions
World ==
    [game |-> game, frames |-> frames, stages |-> stages,
     ended |-> ended, call |-> call, effects |-> effects,
     listeners |-> listeners, logger |-> logger]

Put(w) ==
    /\ game' = w.game
    /\ frames' = w.frames
    /\ stages' = w.stages
    /\ ended' = w.ended
    /\ call' = w.call
    /\ effects' = w.effects
    /\ listeners' = w.listeners
    /\ logger' = w.logger

\* The reaction job of stage i is ready to run: promise i - 1 has settled.
Runnable(s, i, kind) ==
    /\ s[i].kind = kind
    /\ s[i].st = "queued"
    /\ PromiseState(s, i - 1) = "fulfilled"

RegisterPreload ==
    /\ Len(stages) < MaxStages
    /\ Put(preload(World))
    /\ last' = "register"
    /\ UNCHANGED deltaTime

RegisterLoad ==
    /\ Len(stages) < MaxStages
    /\ Put(load(World))
    /\ last' = "register"
    /\ UNCHANGED deltaTime

RegisterUpdate ==
    /\ Len(stages) < MaxStages
    /\ Put(update(World))
    /\ last' = "register"
    /\ UNCHANGED deltaTime

RunPreload(outs) ==
    \E i \in 1..Len(stages), out \in outs :
        /\ Runnable(stages, i, "preload")
        /\ Put(preloadBody(World, i, out))
        /\ last' = "body"
        /\ UNCHANGED deltaTime

RunLoad(outs) ==
    \E i \in 1..Len(stages), out \in outs :
        /\ Runnable(stages, i, "load")
        /\ Put(loadBody(World, i, out))
        /\ last' = "body"
        /\ UNCHANGED deltaTime

RunUpdate ==
    \E i \in 1..Len(stages) :
        /\ Runnable(stages, i, "update")
        /\ Len(frames) < MaxPending
        /\ Put(updateBody(World, i))
        /\ last' = "body"
        /\ UNCHANGED deltaTime

\* then(body) on a rejected promise: the body is not run, the rejection is
\* passed on.
SkipStage ==
    \E i \in 1..Len(stages) :
        /\ stages[i].st = "queued"
        /\ PromiseState(stages, i - 1) = "rejected"
        /\ Put(reject(World, i))
        /\ last' = "other"
        /\ UNCHANGED deltaTime

ResumePreload ==
    \E i \in 1..Len(stages) :
        /\ AwaitFulfilled(stages[i]) \/ AwaitRejected(stages[i])
        /\ Put(preloadResume(World, i))
        /\ last' = "other"
        /\ UNCHANGED deltaTime

\* An asset whose handlers are attached and which has not signalled yet
Waiting(st) == st.assets \ (st.ready \cup st.failed)

SpriteLoad(ok) ==
    \E i \in 1..Len(stages), a \in Sprites \cap ok :
        /\ a \in Waiting(stages[i])
        /\ Put(spriteOnload(World, i, a))
        /\ last' = "other"
        /\ UNCHANGED deltaTime

SpriteError ==
    \E i \in 1..Len(stages), a \in Sprites :
        /\ a \in Waiting(stages[i])
        /\ Put(spriteOnerror(World, i, a))
        /\ last' = "other"
        /\ UNCHANGED deltaTime

AudioReady ==
    \E i \in 1..Len(stages), a \in Audios :
        /\ a \in Waiting(stages[i])
        /\ Put(onCanPlayThrough(World, i, a))
        /\ last' = "other"
        /\ UNCHANGED deltaTime

AudioError ==
    \E i \in 1..Len(stages), a \in Audios :
        /\ a \in Waiting(stages[i])
        /\ Put(onErrorPlay(World, i, a))
        /\ last' = "other"
        /\ UNCHANGED deltaTime

\* The host fires the oldest pending request at time t.
Tick(times, cbs) ==
    \E t \in times, acts \in cbs :
        /\ frames # << >>
        /\ t >= game.deltaTimePreviousTime
        /\ LET w == [World EXCEPT !.frames = Tail(frames)]
               n == updateLoopLogic(w, t, acts)
               run == game.currentState = "update"
           IN  /\ Len(n.frames) <= MaxPending
               /\ Put(n)
               /\ deltaTime' = (IF run THEN t - game.deltaTimePreviousTime
                                 ELSE deltaTime)
               /\ last' = (IF run THEN "tick" ELSE "idle tick")

\* pause(), resume() and end() called from outside the frame callback (an
\* input handler, a timer). A pause() while not running and a resume() while
\* running return at once and change nothing: those calls are stuttering steps.
CallPause ==
    /\ game.updateIsRunning
    /\ Put(pause(World))
    /\ last' = "pause"
    /\ UNCHANGED deltaTime

CallResume ==
    /\ ~game.updateIsRunning
    /\ Len(frames) < MaxPending
    /\ Put(resume(World))
    /\ last' = "resume"
    /\ UNCHANGED deltaTime

CallEnd ==
    /\ Put(end(World))
    /\ last' = "end"
    /\ UNCHANGED deltaTime

Next ==
    \/ RegisterPreload
    \/ RegisterLoad
    \/ RegisterUpdate
    \/ RunPreload(PreloadOutputs)
    \/ RunLoad(LoadOutputs)
    \/ RunUpdate
    \/ SkipStage
    \/ ResumePreload
    \/ SpriteLoad(Sprites)
    \/ SpriteError
    \/ AudioReady
    \/ AudioError
    \/ Tick(Times, CbActs)
    \/ CallPause
    \/ CallResume
    \/ CallEnd

Spec == Init /\ [][Next]_vars

\* The scenario of the spec's section 8: preload(() => [one sprite]), then
\* load(() => [entity "hero"]), then update((u, dt) => {}), the sprite's
\* ready signal firing, no producer throwing.
Kinds(s) == [k \in 1..Len(s) |-> s[k].kind]

ScnRegisterPreload == stages = << >> /\ RegisterPreload
ScnRegisterLoad == Kinds(stages) = <<"preload">> /\ RegisterLoad
ScnRegisterUpdate == Kinds(stages) = <<"preload", "load">> /\ RegisterUpdate
ScnRunPreload == RunPreload({Returned({a}) : a \in Sprites})
ScnRunLoad == RunLoad({Returned({"hero"})})
ScnTick == Tick(1..ScnMaxTime, {<< >>})

ScnNext ==
    \/ ScnRegisterPreload
    \/ ScnRegisterLoad
    \/ ScnRegisterUpdate
    \/ ScnRunPreload
    \/ SpriteLoad(Sprites)
    \/ ResumePreload
    \/ ScnRunLoad
    \/ RunUpdate
    \/ ScnTick

\* The calls are made, reaction jobs run, the sprite loads and the host fires
\* the frames it was asked for.
ScenarioSpec == Init /\ [][ScnNext]_vars /\ WF_vars(ScnNext)

\* ------------------------------------------------------------ SceneSpec
\* The scenario's chain with the calls a page makes while it runs: pause(),
\* resume(), end() and useLogs() at any moment, whatever the engine's state,
\* and a per-frame callback that uses runOnce, looks a name up in one of the
\* registries, resumes or ends the game. The actions record in ended whether
\* end() has been called with no resume() after it.
SceneCbActs ==
    {<< >>, << [op |-> "runOnce", name |-> RunOnceKey] >>}
    \cup { << [op |-> o, name |-> ""] >> : o \in {"resume", "end"} }
    \cup { << [op |-> o, name |-> n] >> :
              o \in {"getSprite", "getAudio", "getObject", "getMap",
                     "animateFromName"},
              n \in Sprites \cup Objects \cup Maps \cup {MissingName} }

\* How many lookup misses SceneSpec lets the engine print in all
MaxMissLogs == 2

RECURSIVE EndedAfter(_, _)
EndedAfter(e, acts) ==
    IF acts = << >> THEN e
    ELSE EndedAfter(CASE Head(acts).op = "end" -> TRUE
                      [] Head(acts).op \in {"resume"} -> FALSE
                      [] OTHER -> e,
                    Tail(acts))

SceneTick ==
    \E t \in Times, acts \in SceneCbActs :
        /\ frames # << >>
        /\ t >= game.deltaTimePreviousTime
        /\ LET w == [World EXCEPT !.frames = Tail(frames)]
               n == updateLoopLogic(w, t, acts)
               run == game.currentState = "update"
           IN  /\ Len(n.frames) <= MaxPending
               /\ BagCardinality(n.effects.missLogs) <= MaxMissLogs
               /\ Put([n EXCEPT !.ended = IF run THEN EndedAfter(ended, acts)
                                          ELSE ended])
               /\ deltaTime' = (IF run THEN t - game.deltaTimePreviousTime
                                 ELSE deltaTime)
               /\ last' = (IF run THEN "tick" ELSE "idle tick")

ScenePause ==
    /\ Put(pause(World))
    /\ last' = "pause"
    /\ UNCHANGED deltaTime

SceneResume ==
    /\ Len(frames) < MaxPending
    /\ Put([resume(World) EXCEPT !.ended = FALSE])
    /\ last' = "resume"
    /\ UNCHANGED deltaTime

SceneEnd ==
    /\ Put([end(World) EXCEPT !.ended = TRUE])
    /\ last' = "end"
    /\ UNCHANGED deltaTime

SceneUseLogs ==
    /\ Put(useLogs(World))
    /\ last' = "useLogs"
    /\ UNCHANGED deltaTime

SceneNext ==
    \/ ScnRegisterPreload
    \/ ScnRegisterLoad
    \/ ScnRegisterUpdate
    \/ ScnRunPreload
    \/ SpriteLoad(Sprites)
    \/ ResumePreload
    \/ ScnRunLoad
    \/ RunUpdate
    \/ SceneTick
    \/ ScenePause
    \/ SceneResume
    \/ SceneEnd
    \/ SceneUseLogs

SceneSpec == Init /\ [][SceneNext]_vars

\* ----------------------------------------------------------- EntitySpec
\* A load stage that registers "hero", then removeObject() and instantiate()
\* in any order, and end().
MaxQuantity == 2

Template == GameObject("hero", 0)
RemoveArgs ==
    { GameObject("hero", 0), GameObject("hero-1", 1),
      GameObject("ghost", 0), GameSprite("hero") }

EntityRegisterLoad == stages = << >> /\ RegisterLoad

EntityRemoveObject ==
    \E targetObject \in RemoveArgs :
        /\ Put(removeObject(World, targetObject))
        /\ last' = "removeObject"
        /\ UNCHANGED deltaTime

EntityInstantiate ==
    \E quantity \in 0..MaxQuantity :
        /\ Put(instantiate(World, Template, quantity))
        /\ last' = "instantiate"
        /\ UNCHANGED deltaTime

EntityNext ==
    \/ EntityRegisterLoad
    \/ ScnRunLoad
    \/ EntityRemoveObject
    \/ EntityInstantiate
    \/ CallEnd

EntitySpec == Init /\ [][EntityNext]_vars

\* --------------------------------------------------------- OutboundSpec
\* set scale(scaleValue) and outbound(targetObject, screenThreshold,
\* callbackFn) while an update stage starts and its frames fire. targetObject
\* is an object with an integer position and size; the callback argument,
\* onOutbound, is "none" when the caller passes none, and the caller's
\* callback changes nothing of the engine.
MaxScale == 2

Abs(n) == IF n < 0 THEN 0 - n ELSE n

setScale(w, scaleValue) == [w EXCEPT !.game.scale = Abs(scaleValue)]

OutboundObjects == [ pos : [x : (0 - 3)..5, y : {0, 4}], size : [x : {1}, y : {1}] ]
Thresholds == {1, 2}

\* The test of outbound()
outboundTest(g, targetObject, screenThreshold) ==
    LET auxWidth == IF screenThreshold # 1 THEN g.width ELSE 0
        auxHeight == IF screenThreshold # 1 THEN g.width ELSE 0
    IN  \/ targetObject.pos.x > g.width * screenThreshold
        \/ targetObject.pos.x + targetObject.size.x * g.scale
               < 0 * auxWidth * screenThreshold
        \/ targetObject.pos.y > g.height * screenThreshold
        \/ targetObject.pos.y + targetObject.size.y * g.scale
               < 0 * auxHeight * screenThreshold

outbound(w, targetObject, screenThreshold, onOutbound) ==
    LET did == IF ~outboundTest(w.game, targetObject, screenThreshold)
               THEN "nothing"
               ELSE IF onOutbound # "none" THEN "callback" ELSE "pause"
        c == [w EXCEPT !.call =
                 [op |-> "outbound",
                  args |-> <<targetObject, screenThreshold, onOutbound>>,
                  ret |-> <<did>>]]
    IN  IF did = "pause" THEN pause(c) ELSE c

OutboundRegisterUpdate == stages = << >> /\ RegisterUpdate

OutboundSetScale ==
    \E scaleValue \in ((0 - MaxScale)..MaxScale) \ {0} :
        /\ Put(setScale(World, scaleValue))
        /\ last' = "scale"
        /\ UNCHANGED deltaTime

OutboundCall ==
    \E targetObject \in OutboundObjects, screenThreshold \in Thresholds,
       onOutbound \in {"none", "callback"} :
        /\ Put(outbound(World, targetObject, screenThreshold, onOutbound))
        /\ last' = "outbound"
        /\ UNCHANGED deltaTime

OutboundNext ==
    \/ OutboundRegisterUpdate
    \/ RunUpdate
    \/ Tick(Times, {<< >>})
    \/ OutboundSetScale
    \/ OutboundCall

OutboundSpec == Init /\ [][OutboundNext]_vars

\* -------------------------------------------------------- CollisionSpec
\* colliding(object1, object2) on entities with integer positions and
\* collision boxes whose fields are numbers or undefined. A field is the
\* one-element sequence of its number, or the empty sequence when undefined.
MaxCoord == 2

Number(n) == <<n>>
Undefined == << >>
TypeofNumber(v) == v # Undefined
Val(v) == v[1]

CollisionBoxes ==
    [ x : {Undefined, Number(0), Number(1)},
      y : {Number(0)},
      w : {Number(0), Number(1)},
      h : {Undefined, Number(1)} ]

Entities ==
    [ pos : [x : 0..MaxCoord, y : 0..1], collision : CollisionBoxes ]

\* colliding() that compares one side only on each axis
collidingOneSided(object1, object2) ==
    /\ TypeofNumber(object1.collision.x)
    /\ TypeofNumber(object1.collision.y)
    /\ TypeofNumber(object1.collision.w)
    /\ TypeofNumber(object1.collision.h)
    /\ TypeofNumber(object2.collision.x)
    /\ TypeofNumber(object2.collision.y)
    /\ TypeofNumber(object2.collision.w)
    /\ TypeofNumber(object2.collision.h)
    /\ object1.pos.x <= object2.pos.x + Val(object2.collision.w)
    /\ object1.pos.y <= object2.pos.y + Val(object2.collision.h)

colliding(object1, object2) ==
    /\ TypeofNumber(object1.collision.x)
    /\ TypeofNumber(object1.collision.y)
    /\ TypeofNumber(object1.collision.w)
    /\ TypeofNumber(object1.collision.h)
    /\ TypeofNumber(object2.collision.x)
    /\ TypeofNumber(object2.collision.y)
    /\ TypeofNumber(object2.collision.w)
    /\ TypeofNumber(object2.collision.h)
    /\ object1.pos.x <= object2.pos.x + Val(object2.collision.w)
    /\ object1.pos.x + Val(object1.collision.w) >= object2.pos.x
    /\ object1.pos.y <= object2.pos.y + Val(object2.collision.h)
    /\ object1.pos.y + Val(object1.collision.h) >= object2.pos.y

\* colliding() reads no state of the engine and changes none: one call per
\* behaviour covers every call.
CollisionCall ==
    \E object1 \in Entities, object2 \in Entities :
        /\ call = NoCall
        /\ Put([World EXCEPT !.call =
                   [op |-> "colliding", args |-> <<object1, object2>>,
                    ret |-> <<colliding(object1, object2)>>]])
        /\ last' = "colliding"
        /\ UNCHANGED deltaTime

CollisionNext == CollisionCall

CollisionSpec == Init /\ [][CollisionNext]_vars

\* --------------------------------------------------------- KeyboardSpec
\* useKeyboard() and end() called in any order while the user presses and
\* releases keys.
MaxKeyboards == 2

KeyboardUse ==
    /\ game.keyboardInstance < MaxKeyboards
    /\ Put(useKeyboard(World))
    /\ last' = "useKeyboard"
    /\ UNCHANGED deltaTime

KeyEvent ==
    \E type \in {"keydown", "keyup"}, key \in Keys :
        /\ Put([World EXCEPT !.game.keyboardState =
                    dispatchEvent(@, listeners, type, key)])
        /\ last' = type
        /\ UNCHANGED deltaTime

\* game.keyboard.removeListener(): the getter throws while there is no
\* instance
KeyboardRemoveListener ==
    /\ game.keyboardInstance # 0
    /\ Put(removeListener(World, game.keyboardInstance))
    /\ last' = "removeListener"
    /\ UNCHANGED deltaTime

KeyboardNext ==
    \/ KeyboardUse
    \/ KeyboardRemoveListener
    \/ KeyEvent
    \/ SceneUseLogs
    \/ SceneEnd

KeyboardSpec == Init /\ [][KeyboardNext]_vars

\* ----------------------------------------------------------- LoggerSpec
\* The stores are set, by useLogs() or directly, and coded errors and
\* exceptions are reported in any order.
LoggerSetErrorsStore ==
    \E errorsSet \in SUBSET LogIds :
        /\ Put(setErrorsStore(World, errorsSet))
        /\ last' = "setErrorsStore"
        /\ UNCHANGED deltaTime

LoggerSetExceptionsStore ==
    \E exceptionsSet \in SUBSET LogIds :
        /\ Put(setExceptionsStore(World, exceptionsSet))
        /\ last' = "setExceptionsStore"
        /\ UNCHANGED deltaTime

LoggerError ==
    \E errorId \in LogIds, stack \in Stacks :
        /\ Put(error(World, errorId, stack))
        /\ last' = "error"
        /\ UNCHANGED deltaTime

LoggerException ==
    \E exceptionId \in LogIds, stack \in Stacks :
        /\ Put(exception(World, exceptionId, stack))
        /\ last' = "exception"
        /\ UNCHANGED deltaTime

LoggerNext ==
    \/ SceneUseLogs
    \/ LoggerSetErrorsStore
    \/ LoggerSetExceptionsStore
    \/ LoggerError
    \/ LoggerException

LoggerSpec == Init /\ [][LoggerNext]_vars

\* --------------------------------------------------------- AccessorSpec
\* The accessor object the load body hands to its producer (part_000:238-269).
\* Its functions close over the Game instance, so the producer can call them
\* while it runs and keep them for later. A call is recorded in `call`; the
\* second component of ret tells whether console.error was called.
GameAudio(name) == [class |-> "GameAudio", name |-> name, id |-> 0]

\* GameSprite.getEmptyInstance() and GameAudio.getEmptyInstance(): an
\* instance that is in no registry
EmptySprite == [class |-> "GameSprite", name |-> "", id |-> 0]
EmptyAudio == [class |-> "GameAudio", name |-> "", id |-> 0]

AccessorNames == Sprites \cup Audios \cup {MissingName}

\* An accessor that always answers with the empty instance
getSpriteAlwaysEmpty(w, spriteName) ==
    [w EXCEPT !.call = [op |-> "getSprite", args |-> <<spriteName>>,
                        ret |-> <<EmptySprite, FALSE>>]]

getSprite(w, spriteName) ==
    LET has == spriteName \in w.game.loadedSprites
        logged == w.game.logsEnabled /\ ~has
    IN  [w EXCEPT !.call =
            [op |-> "getSprite", args |-> <<spriteName>>,
             ret |-> <<IF has THEN GameSprite(spriteName) ELSE EmptySprite,
                       logged>>]]

getAudio(w, audioName) ==
    LET has == audioName \in w.game.loadedAudios
        logged == w.game.logsEnabled /\ ~has
    IN  [w EXCEPT !.call =
            [op |-> "getAudio", args |-> <<audioName>>,
             ret |-> <<IF has THEN GameAudio(audioName) ELSE EmptyAudio,
                       logged>>]]

\* The accessor exists once a load body has started
AccessorCreated ==
    \E i \in 1..Len(stages) : stages[i].kind = "load" /\ stages[i].out # "none"

AccessorRunPreload == RunPreload({Returned(Assets)})
AccessorRunLoad == RunLoad({Returned({})})

AccessorGetSprite ==
    \E spriteName \in AccessorNames :
        /\ AccessorCreated
        /\ Put(getSprite(World, spriteName))
        /\ last' = "getSprite"
        /\ UNCHANGED deltaTime

AccessorGetAudio ==
    \E audioName \in AccessorNames :
        /\ AccessorCreated
        /\ Put(getAudio(World, audioName))
        /\ last' = "getAudio"
        /\ UNCHANGED deltaTime

AccessorNext ==
    \/ RegisterPreload
    \/ RegisterLoad
    \/ AccessorRunPreload
    \/ SpriteLoad(Sprites)
    \/ AudioReady
    \/ ResumePreload
    \/ AccessorRunLoad
    \/ SceneUseLogs
    \/ CallEnd
    \/ AccessorGetSprite
    \/ AccessorGetAudio

AccessorSpec == Init /\ [][AccessorNext]_vars

\* ---------------------------------------------------------------- claims
\* The body of a stage has begun: its producer has been called.
Ran(st) == st.out # "none"

\* A promise reaction job of the chain is waiting to run.
JobPending(s, i) ==
    \/ s[i].st = "queued" /\ PromiseState(s, i - 1) \in {"fulfilled", "rejected"}
    \/ AwaitFulfilled(s[i])
    \/ AwaitRejected(s[i])
Quiescent == \A i \in 1..Len(stages) : ~JobPending(stages, i)

InRegistry(g, a) ==
    IF a \in Sprites THEN a \in g.loadedSprites ELSE a \in g.loadedAudios

Registries(g) ==
    << g.loadedSprites, g.loadedAudios, g.loadedGameObjects,
       g.loadedGameMaps, g.loadedGameCameras >>

\* The step in which an asset's ready signal fires puts it in its registry.
ReadyInserts ==
    \A i \in 1..Len(stages) :
        \A a \in stages'[i].ready \ stages[i].ready : InRegistry(game', a)

\* A callback-invoking tick has completed (frame timestamps are positive).
Ticked == game.deltaTimePreviousTime > 0

\* C1: the body of a stage has begun only if the stage registered before it
\* is fulfilled and every asset wait that stage started has been answered by
\* the asset's ready signal.
C1_StrictChainOrder ==
    \A i \in 2..Len(stages) :
        Ran(stages[i]) =>
            /\ stages[i - 1].st = "fulfilled"
            /\ Waiting(stages[i - 1]) = {}
            /\ stages[i - 1].ready = stages[i - 1].assets

C1_Witness ==
    \E i \in 2..Len(stages) :
        /\ Ran(stages[i])
        /\ stages[i - 1].kind = "preload"
        /\ stages[i - 1].assets = Assets

\* C2 (as claimed): once a stage has rejected (its producer threw, its list
\* was empty or an asset failed) and every reaction job has run, the
\* lifecycle state is "error".
C2_RejectionSetsErrored ==
    (Quiescent /\ \E i \in 1..Len(stages) : stages[i].st = "rejected")
        => game.currentState = "error"

\* C3 (as claimed): once an asset of a preload stage has signalled an error,
\* no later stage's body is ever run and, as soon as no reaction job is left
\* to run, the stage has failed, whatever its other assets have done.
C3_AssetErrorFailsPreload ==
    \A i \in 1..Len(stages) :
        stages[i].failed # {} =>
            /\ \A j \in (i + 1)..Len(stages) : ~Ran(stages[j])
            /\ Quiescent => stages[i].st = "rejected"

\* C4: a registration call only appends a queued stage: it leaves the
\* lifecycle state, the registries, the frame queue and every other stage as
\* they were, and the new stage's producer has not been called, also when
\* the chain has failed before.
C4_RegistrationOnlyAppends ==
    [][ Len(stages') > Len(stages) =>
          /\ game' = game
          /\ frames' = frames
          /\ stages' = Append(stages, stages'[Len(stages')])
          /\ stages'[Len(stages')].st = "queued"
          /\ ~Ran(stages'[Len(stages')]) ]_vars

C4_Witness ==
    /\ last = "register"
    /\ stages[Len(stages)].st = "queued"
    /\ \E i \in 1..Len(stages) : stages[i].st = "rejected"

\* C5: a preload stage with a non-empty list whose assets have all signalled
\* ready is fulfilled, or its continuation is ready to run, and never
\* rejected; each asset entered its registry in the step its ready signal
\* fired, and only end() takes an asset out of the sprite and audio registries.
AllReady(st) ==
    st.kind = "preload" /\ st.assets # {} /\ st.ready = st.assets

C5_AllReadyResolves ==
    /\ [](\A i \in 1..Len(stages) :
            AllReady(stages[i]) =>
                stages[i].st = "fulfilled" \/ AwaitFulfilled(stages[i]))
    /\ [][ReadyInserts]_vars
    /\ [][ (\E a \in Assets : InRegistry(game, a) /\ ~InRegistry(game', a))
             => last' \in {"end", "tick"} ]_vars

C5_Witness ==
    \E i \in 1..Len(stages) :
        /\ stages[i].assets = Assets
        /\ AllReady(stages[i])
        /\ stages[i].st = "fulfilled"
        /\ \A a \in Assets : InRegistry(game, a)

\* C6: in the scenario the lifecycle reaches "update", the per-frame callback
\* is invoked, and from the first tick on "hero" is in the entity registry
\* and isRunning is true.
C6_ScenarioRuns ==
    /\ <>(game.currentState = "update")
    /\ <>(last = "tick")
    /\ [](Ticked => "hero" \in DOMAIN game.loadedGameObjects /\ game.updateIsRunning)

C6_Witness ==
    /\ last = "tick"
    /\ deltaTime > 0
    /\ Ticked
    /\ "hero" \in DOMAIN game.loadedGameObjects
    /\ game.updateIsRunning

\* C7: a preload stage whose producer returned an empty list is rejected, has
\* started no asset wait, the step that ran it left all registries as they
\* were, and no body of a later stage is ever run.
C7_EmptyListFails ==
    /\ [](\A i \in 1..Len(stages) :
            stages[i].out = "empty" =>
                /\ stages[i].st = "rejected"
                /\ stages[i].assets = {}
                /\ \A j \in (i + 1)..Len(stages) : ~Ran(stages[j]))
    /\ [][ (\E i \in 1..Len(stages) :
              stages[i].out = "none" /\ stages'[i].out = "empty")
             => Registries(game') = Registries(game) ]_vars

C7_Witness ==
    \E i \in 1..Len(stages) :
        /\ stages[i].out = "empty"
        /\ i < Len(stages)
        /\ stages[Len(stages)].st = "rejected"
        /\ stages[Len(stages)].kind = "update"

\* C8 (as claimed): a preload stage one of whose assets has signalled an error
\* while another is still pending has failed as soon as no reaction job is
\* left to run.
C8_FailFast ==
    \A i \in 1..Len(stages) :
        (Quiescent /\ stages[i].failed # {} /\ Waiting(stages[i]) # {})
            => stages[i].st = "rejected"

\* C9 (as claimed): after a preload stage has failed, no asset of its list is
\* in the sprite or audio registry.
C9_NothingInsertedOnFailure ==
    \A i \in 1..Len(stages) :
        (stages[i].kind = "preload" /\ stages[i].st = "rejected")
            => \A a \in stages[i].assets : ~InRegistry(game, a)

\* C9 (amended): an asset enters its registry in the step its own ready
\* signal fires, whether or not the stage succeeds later; the sprite and
\* audio registries hold no asset whose ready signal has not fired; the step
\* in which a preload stage fails leaves both registries as they are; and an
\* asset leaves its registry only in a step that calls end(), which empties
\* both. So after a preload stage that fails, until end() is called, the
\* registries hold exactly the assets of its list whose ready signal fired.
C9_InsertedWhenReady ==
    /\ [](\A a \in Assets :
            InRegistry(game, a) => \E i \in 1..Len(stages) : a \in stages[i].ready)
    /\ [][ReadyInserts]_vars
    /\ [][ \A i \in 1..Len(stages) :
             (/\ stages[i].kind = "preload"
              /\ stages[i].st # "rejected"
              /\ stages'[i].st = "rejected")
                => /\ game'.loadedSprites = game.loadedSprites
                   /\ game'.loadedAudios = game.loadedAudios ]_vars
    /\ [][ (\E a \in Assets : InRegistry(game, a) /\ ~InRegistry(game', a))
             => /\ last' \in {"end", "tick"}
                /\ game'.loadedSprites = {}
                /\ game'.loadedAudios = {} ]_vars

\* A preload stage of two assets has failed on the error of one of them, and
\* the registries hold the other, whose ready signal fired, and only it.
C9_Witness ==
    \E i \in 1..Len(stages) :
        /\ stages[i].st = "rejected"
        /\ stages[i].failed # {}
        /\ stages[i].ready # {}
        /\ \A a \in stages[i].assets :
              InRegistry(game, a) <=> a \in stages[i].ready

\* C10: a pause() on a running loop leaves isRunning false; a tick that fires
\* while isRunning is false does not invoke the per-frame callback; and
\* isRunning becomes true again only by resume() or by the body of an update
\* stage.
C10_PausedLoopIsSilent ==
    [][ /\ last' = "pause" => (game.updateIsRunning /\ ~game'.updateIsRunning)
        /\ ~game.updateIsRunning => last' # "tick"
        /\ (~game.updateIsRunning /\ game'.updateIsRunning)
             => last' \in {"resume", "body"} ]_vars

C10_Witness ==
    /\ last = "idle tick"
    /\ ~game.updateIsRunning
    /\ game.currentState = "unset"
    /\ game.updateLoopLogic

\* C11 (as claimed): at most one request for a tick of the frame loop is
\* pending with the host at any moment.
C11_AtMostOneTickScheduled == Len(frames) <= 1

\* C13 (as claimed): a pause() on a running loop leaves no tick scheduled,
\* sets the lifecycle state to "unset" and changes nothing else of the
\* engine; a resume() that follows sets the lifecycle state to "update".
C13_PauseCancelsNextTick ==
    [][ /\ last' = "pause" =>
              /\ frames' = << >>
              /\ game' = [game EXCEPT !.currentState = "unset",
                                      !.updateIsRunning = FALSE]
        /\ last' = "resume" => game'.currentState = "update" ]_vars

\* The numeric value of a lifecycle state (part_000:11-15)
Rank(s) ==
    CASE s = "unset" -> 0
      [] s = "preload" -> 1
      [] s = "load" -> 2
      [] s = "update" -> 3
      [] s = "error" -> 4

\* C14 (as claimed): the body of a stage never sets a lifecycle state
\* earlier, in the order unset < preload < load < update < error, than the
\* state a body that ran before it has set. The states pause() and resume()
\* set are left aside.
C14_StateIsMonotonic ==
    [][ last' = "body" =>
          \A i \in 1..Len(stages) :
              Ran(stages[i]) =>
                  Rank(stages[i].kind) <= Rank(game'.currentState) ]_vars

\* C15 (as claimed): the elapsed time passed to the per-frame callback is 0
\* on the first tick and, on a later tick, the difference between the tick's
\* timestamp and the previous tick's.
C15_ElapsedTime ==
    [][ last' = "tick" =>
          deltaTime' = (IF Ticked
                        THEN game'.deltaTimePreviousTime
                               - game.deltaTimePreviousTime
                        ELSE 0) ]_vars

\* C12: a pause() called while the loop is not running and a resume() called
\* while it is running change nothing of the engine: lifecycle state,
\* isRunning, registries, key sets, the pending frame requests and the chain
\* are as before.
C12_RedundantCallsChangeNothing ==
    [][ /\ (last' = "pause" /\ ~game.updateIsRunning)
             => UNCHANGED <<game, frames, stages>>
        /\ (last' = "resume" /\ game.updateIsRunning)
             => UNCHANGED <<game, frames, stages>> ]_vars

\* A resume() has just been called on a running loop: the only pending
\* request is the one the last tick made.
C12_Witness ==
    /\ last = "resume"
    /\ game.updateIsRunning
    /\ game.updateLoopLogic
    /\ frames = <<TRUE>>

\* C16 (as claimed): when end() has returned, logging is disabled, isRunning
\* is false, the five registries are empty and so are the miss-logging set
\* and the runOnce key set.
C16_EndClearsEverything ==
    last = "end" =>
        /\ ~game.logsEnabled
        /\ ~game.updateIsRunning
        /\ game.loadedSprites = {} /\ game.loadedAudios = {}
        /\ DOMAIN game.loadedGameObjects = {}
        /\ game.loadedGameMaps = {} /\ game.loadedGameCameras = {}
        /\ game.loggedErros = {}
        /\ game.updaterRunOnceKeys = {}

\* C17 (as claimed): the per-frame callback is not invoked while end() has
\* been called and resume() has not been called since.
C17_NoCallbackAfterEnd == [][ last' = "tick" => ~ended ]_vars

\* C18: removeObject(e) for an entity e leaves no entry under e.name in the
\* entity registry; when there was none before (a second removal, an entity
\* never registered) the call changes nothing of the engine, and when
\* there was one it changes nothing else.
C18_RemoveObject ==
    [][ last' = "removeObject" =>
          LET e == call'.args[1]
          IN  e.class = "GameObject" =>
                /\ e.name \notin DOMAIN game'.loadedGameObjects
                /\ game' = [game EXCEPT !.loadedGameObjects =
                                            MapDelete(@, e.name)]
                /\ e.name \notin DOMAIN game.loadedGameObjects
                     => game' = game
                /\ UNCHANGED <<frames, stages>> ]_vars

\* removeObject(hero) has returned: the registry holds no "hero" and the
\* other entity is still there.
C18_Witness ==
    /\ last = "removeObject"
    /\ call.args[1].name = "hero"
    /\ DOMAIN game.loadedGameObjects = {"hero-1"}

\* C19 (as claimed): every entity instantiate() returns is the value stored
\* in the entity registry under its name, and the entries the registry held
\* before the call are untouched.
C19_ReturnsOnlyRegistered ==
    [][ last' = "instantiate" =>
          /\ \A k \in 1..Len(call'.ret) :
                /\ call'.ret[k].name \in DOMAIN game'.loadedGameObjects
                /\ game'.loadedGameObjects[call'.ret[k].name] = call'.ret[k].id
          /\ \A n \in DOMAIN game.loadedGameObjects :
                /\ n \in DOMAIN game'.loadedGameObjects
                /\ game'.loadedGameObjects[n] = game.loadedGameObjects[n]
       ]_vars

\* C20: instantiate(template, n) returns exactly n entities, the k-th named
\* <template>-k, and after the call each of these names is a key of the
\* entity registry.
C20_InstantiateReturnsAll ==
    [][ last' = "instantiate" =>
          LET targetObject == call'.args[1]
              quantity == call'.args[2]
          IN  /\ Len(call'.ret) = quantity
              /\ \A k \in 1..quantity :
                    /\ call'.ret[k].name =
                           targetObject.name \o "-" \o ToString(k)
                    /\ call'.ret[k].name \in DOMAIN game'.loadedGameObjects
       ]_vars

\* instantiate has returned MaxQuantity entities, the first under a name the
\* registry held already.
C20_Witness ==
    /\ last = "instantiate"
    /\ Len(call.ret) = MaxQuantity
    /\ call.ret[1].name = "hero-1"
    /\ call.ret[1].id > 1

\* C28 (as claimed): when the per-frame callback has stopped the loop during
\* a tick (it called pause() or end()), no tick is left scheduled with the
\* host after that tick.
C28_StoppedTickSchedulesNothing ==
    [][ (last' = "tick" /\ ~game'.updateIsRunning) => frames' = << >> ]_vars

\* C29 (as claimed): isRunning is true exactly when the lifecycle state is
\* "update".
C29_RunningIffUpdating ==
    game.updateIsRunning <=> game.currentState = "update"

\* C21: colliding(a, b) equals colliding(b, a), for complete and incomplete
\* collision boxes.
C21_CollidingIsSymmetric ==
    call.op = "colliding" =>
        call.ret[1] = colliding(call.args[2], call.args[1])

\* Two different entities, the first to the left of the second, collide.
C21_Witness ==
    /\ call.op = "colliding"
    /\ call.ret[1]
    /\ call.args[1].pos.x < call.args[2].pos.x
    /\ call.args[1].collision # call.args[2].collision

\* The collision box of an entity as the engine draws it (part_000:727):
\* from pos + collision offset, collision size wide and high.
Complete(o) ==
    /\ TypeofNumber(o.collision.x) /\ TypeofNumber(o.collision.y)
    /\ TypeofNumber(o.collision.w) /\ TypeofNumber(o.collision.h)
BoxLeft(o) == o.pos.x + Val(o.collision.x)
BoxRight(o) == BoxLeft(o) + Val(o.collision.w)
BoxTop(o) == o.pos.y + Val(o.collision.y)
BoxBottom(o) == BoxTop(o) + Val(o.collision.h)

\* C22 (as claimed): colliding(a, b) is true exactly when both boxes are
\* complete and the boxes overlap, boundaries included, on all four sides.
C22_CollidingIffBoxesOverlap ==
    call.op = "colliding" =>
        LET a == call.args[1]
            b == call.args[2]
        IN  call.ret[1] <=>
                /\ Complete(a) /\ Complete(b)
                /\ BoxLeft(a) <= BoxRight(b) /\ BoxRight(a) >= BoxLeft(b)
                /\ BoxTop(a) <= BoxBottom(b) /\ BoxBottom(a) >= BoxTop(b)

\* C23 (as claimed): two complete boxes of which the first's right edge is
\* the second's left edge, their vertical extents overlapping, collide.
C23_TouchingEdgesCollide ==
    call.op = "colliding" =>
        LET a == call.args[1]
            b == call.args[2]
        IN  ( /\ Complete(a) /\ Complete(b)
              /\ BoxRight(a) = BoxLeft(b)
              /\ BoxTop(a) <= BoxBottom(b) /\ BoxBottom(a) >= BoxTop(b) )
                => call.ret[1]

\* The box of an entity on the surface, position and size scaled by the
\* global scale (part_000:504), lies outside [0, width] or outside
\* [0, height].
ScaledBoxOutside(g, o) ==
    \/ o.pos.x * g.scale > g.width
    \/ o.pos.x * g.scale + o.size.x * g.scale < 0
    \/ o.pos.y * g.scale > g.height
    \/ o.pos.y * g.scale + o.size.y * g.scale < 0

\* C24 (as claimed): with threshold 1, outbound(entity) triggers exactly
\* when the scaled box of the entity lies outside the surface; when it
\* triggers with no callback given it does what pause() does, and when it
\* does not trigger, or calls the callback given, it changes nothing of the
\* engine.
C24_OutboundAtThresholdOne ==
    [][ (last' = "outbound" /\ call'.args[2] = 1) =>
          LET did == call'.ret[1]
          IN  /\ did # "nothing" <=> ScaledBoxOutside(game, call'.args[1])
              /\ did = "pause" <=> (did # "nothing" /\ call'.args[3] = "none")
              /\ did = "pause" =>
                    /\ game' = pause(World).game
                    /\ frames' = pause(World).frames
              /\ did # "pause" => UNCHANGED <<game, frames>>
              /\ UNCHANGED stages ]_vars

\* C25: a call of the load accessor's getSprite(name) or getAudio(name)
\* returns the registered asset when name is a key of the registry it reads
\* and the empty instance otherwise (it returns in every case), and leaves
\* all five registries as they were.
C25_AccessorReturnsOrPlaceholder ==
    [][ /\ last' = "getSprite" =>
            /\ call'.op = "getSprite"
            /\ call'.ret[1] =
                   IF call'.args[1] \in game.loadedSprites
                   THEN GameSprite(call'.args[1]) ELSE EmptySprite
            /\ Registries(game') = Registries(game)
        /\ last' = "getAudio" =>
            /\ call'.op = "getAudio"
            /\ call'.ret[1] =
                   IF call'.args[1] \in game.loadedAudios
                   THEN GameAudio(call'.args[1]) ELSE EmptyAudio
            /\ Registries(game') = Registries(game) ]_vars

\* A getSprite("s1") call answered with the registered sprite s1
C25_Witness ==
    /\ last = "getSprite"
    /\ "s1" \in game.loadedSprites
    /\ call.args = <<"s1">>
    /\ call.ret[1] = GameSprite("s1")

\* C26: the function given to runOnce under an identifier is run at most
\* once, whatever ticks, pause(), resume() and end() calls happen: a runOnce
\* call whose identifier has already had its function run does not run it.
C26_RunOnceRunsOnce ==
    \A k \in DOMAIN effects.fnRuns : effects.fnRuns[k] <= 1

\* After a load stage registered "hero" and end() emptied the registry, a
\* frame called runOnce("intro", fn) again and fn, run once before, was not
\* run.
C26_Witness ==
    /\ last = "tick"
    /\ call = [op |-> "runOnce", args |-> <<RunOnceKey>>, ret |-> <<FALSE>>]
    /\ Count(effects.fnRuns, RunOnceKey) = 1
    /\ \E i \in 1..Len(stages) : stages[i].kind = "load" /\ stages[i].out = "ok"
    /\ DOMAIN game.loadedGameObjects = {}

\* C27 (as claimed): over the whole run a miss is logged at most once for a
\* name, whatever useLogs() and end() calls happen in between.
C27_MissLoggedOncePerRun ==
    \A n \in DOMAIN effects.missLogs : effects.missLogs[n] <= 1

\* C27 (amended): between two end() calls, and before the first, a miss is
\* logged at most once for a name, however many ticks repeat the lookup and
\* whatever useLogs() calls happen in between.
C27_MissLoggedOncePerSession ==
    \A n \in DOMAIN effects.sessionMissLogs : effects.sessionMissLogs[n] <= 1

\* The miss of "ghost" has been logged before an end() and again after it.
C27_Witness ==
    /\ Count(effects.missLogs, MissingName) = 2
    /\ Count(effects.sessionMissLogs, MissingName) = 1

\* C30: when end() returns no keyboard listener is attached to the window,
\* however many useKeyboard() calls came before, and a key event that follows
\* the end() leaves the key-state map as it is.
C30_EndDetachesAllListeners ==
    [][ /\ last' = "end" => listeners' = {}
        /\ (last = "end" /\ last' \in {"keydown", "keyup"})
              => game'.keyboardState = game.keyboardState ]_vars

\* C31: once the store is set, a call of error(id) or exception(id) that
\* returns, for an id of the table, prints exactly the coded message when
\* the store does not hold the id yet (the first call) and nothing when it
\* does (a later call); "id not found" is printed only for an id that is
\* not in the table.
C31_CodedMessageExactlyOnce ==
    [][ LET isError == last' = "error"
            store == IF isError THEN logger.storedErrors
                     ELSE logger.storedExceptions
            table == IF isError THEN ErrorIds ELSE ExceptionIds
            level == IF isError THEN "error" ELSE "warn"
            id == call'.args[1]
            emitted == call'.ret[1]
        IN  (/\ last' \in {"error", "exception"}
             /\ store # NoStore
             /\ ~call'.ret[2])
            => /\ (id \in table /\ id \notin store[1])
                     => emitted = <<Coded(level, id)>>
               /\ (id \in table /\ id \in store[1])
                     => emitted = << >>
               /\ (\E k \in 1..Len(emitted) : emitted[k].kind = "notFound")
                     => id \notin table ]_vars
====
